---- MODULE Spec2Model ----
(***************************************************************************)
(* Model of github-backup (src/main.go): main's loop over the accounts,    *)
(* getRepos, getStars, cloneRepos and inSlise.                             *)
(*                                                                         *)
(* A Go string is a sequence of one-character strings ("" is << >>); a     *)
(* literal that the program only concatenates is kept as one element.      *)
(* Every external invocation (gh, http.Get, git clone) is a step boundary: *)
(* one action starts it, the next action receives its result.              *)
(***************************************************************************)
EXTENDS Integers, Sequences, FiniteSets, TLC

VARIABLES
    limitslist,  \* main: the -limit flag as given
    users,       \* main: strings.Split(userslist, ",")
    limit,       \* main: the parsed allow-list (nil when -limit is blank)
    stars,       \* main: -stars
    starsonly,   \* main: -starsonly
    pc,          \* where the process is: main, gh, http, range, git, wiki, exit
    u,           \* main: index of the current account in users
    at,          \* main: next discovery of the current account (owned, starred)
    caller,      \* which discovery called cloneRepos (owned, starred)
    jsonData,    \* getStars: the decoded response body
    rng,         \* cloneRepos: the slice the range statement evaluated once
    repos,       \* cloneRepos: its parameter repos (appended to in the loop)
    cloned,      \* cloneRepos: its named result
    i,           \* cloneRepos: position of the range loop
    reponum,     \* the package-level progress counter
    exitcode,    \* process exit status (meaningful when pc = "exit")
    cmd,         \* the external invocation started last
    printed,     \* stdout: the progress record printed last (num 0: none yet)
    nPrinted,    \* stdout: number of progress records printed
    mirrored,    \* file system: destinations created by successful main clones
    ev,          \* history: what the last step was
    nExec,       \* history: external invocations started so far
    nMain,       \* history: main clones started so far
    nOwned,      \* history: owned discoveries started, per account position
    nStars,      \* history: starred discoveries started, per account position
    callLog,     \* history: clone invocations of the current cloneRepos call
    retd,        \* history: the current cloneRepos call has returned
    ret,         \* history: what the last cloneRepos call returned
    errAt,       \* history: nExec when gh or a main clone errored, -1 if never
    wikiFailed,  \* history: some wiki clone failed
    starsFailed, \* history: some starred discovery failed
    discRet      \* history: what the last getRepos or getStars returned

config == <<limitslist, users, limit, stars, starsonly>>
vars == <<limitslist, users, limit, stars, starsonly, pc, u, at, caller,
          jsonData, rng, repos, cloned, i, reponum, exitcode, cmd, printed,
          nPrinted, mirrored, ev, nExec, nMain, nOwned, nStars, callLog,
          retd, ret, errAt, wikiFailed, starsFailed, discRet>>

\* ------------------------------------------------------------- bounds
MaxUsers == 2
MaxRepos == 2

\* ------------------------------------------------------------ strings
IsSpace(c) == c \in {" ", "\t", "\n"}

RECURSIVE TrimLeft(_)
TrimLeft(s) == IF s = << >> \/ ~IsSpace(Head(s)) THEN s ELSE TrimLeft(Tail(s))

RECURSIVE TrimRight(_)
TrimRight(s) ==
    IF s = << >> \/ ~IsSpace(s[Len(s)]) THEN s
    ELSE TrimRight(SubSeq(s, 1, Len(s) - 1))

TrimSpace(s) == TrimRight(TrimLeft(s))

RECURSIVE Split(_, _)
Split(s, sep) ==
    IF \A k \in 1..Len(s) : s[k] # sep THEN <<s>>
    ELSE LET k == CHOOSE k \in 1..Len(s) :
                      s[k] = sep /\ \A j \in 1..(k - 1) : s[j] # sep
         IN  <<SubSeq(s, 1, k - 1)>> \o Split(SubSeq(s, k + 1, Len(s)), sep)

RECURSIVE Join(_, _)
Join(ss, sep) ==
    IF ss = << >> THEN << >>
    ELSE IF Len(ss) = 1 THEN ss[1]
    ELSE ss[1] \o <<sep>> \o Join(Tail(ss), sep)

RECURSIVE Lines(_)
Lines(ss) == IF ss = << >> THEN << >> ELSE ss[1] \o <<"\n">> \o Lines(Tail(ss))

SeqsUpTo(S, n) == UNION {[1..k -> S] : k \in 0..n}

\* ------------------------------------------------------------- inputs
output == <<"repos">>
maxrepo == <<"1000">>

AllUsers == << <<"u">>, <<" ", "v">>, <<"w", " ">> >>
UsersLists == {Join(SubSeq(AllUsers, 1, k), ",") : k \in 0..MaxUsers}
LimitLists == {<< >>, <<" ">>, <<"a">>, <<" ", "a", ",", "b">>}

GhLines == {<<"a", "\t", "x">>, <<"b">>}
GhOutputs == {Lines(ls) : ls \in SeqsUpTo(GhLines, MaxRepos)}

Objects == {{<<"full_name", <<"a">>>>}, {<<"other", <<"z">>>>}}
Responses ==
    {[kind |-> k, body |-> << >>] : k \in {"neterr", "readerr", "badjson"}}
    \cup {[kind |-> "ok", body |-> b] : b \in SeqsUpTo(Objects, MaxRepos)}

MirrorGhLines == {<<"a", "\t", "x">>, <<"a", "b">>, <<" ", "a">>, <<"b">>}
MirrorGhOutputs == {Lines(ls) : ls \in SeqsUpTo(MirrorGhLines, MaxRepos)}
MirrorLimitLists ==
    {<< >>, <<"a">>, <<" ", "a", " ">>, <<"a", "b">>, <<"a", ",", "b">>,
     <<"a", " ", "b">>, <<"b", ",", "\t", "a", "b">>}

\* ------------------------------------------------------- main's parse
ParseUsers(userslist) == Split(userslist, ",")

ParseLimit(ll) == IF Len(TrimSpace(ll)) # 0 THEN Split(ll, ",") ELSE << >>

\* ------------------------------------------------ getRepos: gh output
RECURSIVE ParseGhLines(_)
ParseGhLines(strs) ==
    IF strs = << >> THEN << >>
    ELSE IF Len(strs[1]) = 0 THEN ParseGhLines(Tail(strs))
    ELSE <<Split(strs[1], "\t")[1]>> \o ParseGhLines(Tail(strs))

ParseGh(out) == ParseGhLines(Split(out, "\n"))

\* --------------------------------------------- getStars: response body
HasFullName(o) == \E p \in o : p[1] = "full_name"

FullName(o) ==
    IF HasFullName(o) THEN (CHOOSE p \in o : p[1] = "full_name")[2] ELSE << >>

StarRepos(jd) == [k \in 1..Len(jd) |-> FullName(jd[k])]

\* -------------------------------------------------------------- filter
RECURSIVE inSliseFrom(_, _, _)
inSliseFrom(el, ar, k) ==
    IF k > Len(ar) THEN FALSE
    ELSE IF TrimSpace(ar[k]) = el THEN TRUE
    ELSE inSliseFrom(el, ar, k + 1)

\* Variant: the repository name is trimmed as well.
inSliseTrimBoth(el, ar) == inSliseFrom(TrimSpace(el), ar, 1)

inSlise(el, ar) == inSliseFrom(el, ar, 1)

\* Variant: the allow-list is not consulted.
IncludedAlways(repo, lim) == TRUE

Included(repo, lim) == Len(lim) = 0 \/ inSlise(repo, lim)

\* --------------------------------------------------- external commands
GhCmd(user) == << <<"gh">>, <<"repo">>, <<"list">>, user, <<"-L">>, maxrepo >>

StarsUrl(user) ==
    <<"https://api.github.com/users/">> \o user
        \o <<"/starred?page=1&per_page=">> \o maxrepo

HttpGet(user) == << <<"GET">>, StarsUrl(user) >>

MainRemote(repo) == <<"git@github.com:">> \o repo \o <<".git">>
MainDest(dir, repo) == dir \o <<"/">> \o repo \o <<".git">>
WikiRemote(repo) == <<"git@github.com:">> \o repo \o <<".wiki.git">>
WikiDest(dir, repo) == dir \o <<"/">> \o repo \o <<".wiki.git">>

CloneCmd(remote, dest) ==
    << <<"git">>, <<"clone">>, <<"--mirror">>, remote, dest >>

\* ---------------------------------------------------------------- Init
InitRun(ul, ll, s, so) ==
    /\ limitslist = ll
    /\ users = ParseUsers(ul)
    /\ limit = ParseLimit(ll)
    /\ stars = s
    /\ starsonly = so
    /\ pc = "main"
    /\ u = 1
    /\ at = "owned"
    /\ caller = "owned"
    /\ jsonData = << >>
    /\ rng = << >>
    /\ repos = << >>
    /\ cloned = << >>
    /\ i = 1
    /\ reponum = 0
    /\ exitcode = 0
    /\ cmd = << >>
    /\ printed = [num |-> 0, repo |-> << >>]
    /\ nPrinted = 0
    /\ mirrored = {}
    /\ ev = "start"
    /\ nExec = 0
    /\ nMain = 0
    /\ nOwned = [k \in 1..Len(ParseUsers(ul)) |-> 0]
    /\ nStars = [k \in 1..Len(ParseUsers(ul)) |-> 0]
    /\ callLog = << >>
    /\ retd = FALSE
    /\ ret = << >>
    /\ errAt = -1
    /\ wikiFailed = FALSE
    /\ starsFailed = FALSE
    /\ discRet = << >>

Init ==
    \E ul \in UsersLists, ll \in LimitLists, s \in BOOLEAN, so \in BOOLEAN :
        InitRun(ul, ll, s, so)

\* ------------------------------------------------------------ helpers
\* cloneRepos(list, limit, dir) is entered by the discovery `who`.
EnterCloneRepos(list, who) ==
    /\ pc' = "range"
    /\ caller' = who
    /\ rng' = list
    /\ repos' = list
    /\ cloned' = << >>
    /\ i' = 1
    /\ callLog' = << >>
    /\ retd' = FALSE

\* The discovery function returns to main's loop.
BackToMain(who) ==
    /\ pc' = "main"
    /\ IF who = "owned" THEN at' = "starred" /\ u' = u
                        ELSE at' = "owned" /\ u' = u + 1

\* log.Fatal: os.Exit(1).
Fatal ==
    /\ pc' = "exit"
    /\ exitcode' = 1

\* ---------------------------------------------------------------- main
WantOwned(so) == ~so

\* Variant: -starsonly does not switch starred discovery on.
WantStarredByStars(s, so) == s

WantStarred(s, so) == s \/ so

mainGetRepos ==
    /\ pc = "main" /\ u <= Len(users) /\ at = "owned" /\ WantOwned(starsonly)
    /\ pc' = "gh"
    /\ cmd' = GhCmd(TrimSpace(users[u]))
    /\ nExec' = nExec + 1
    /\ nOwned' = [nOwned EXCEPT ![u] = @ + 1]
    /\ ev' = "gh"
    /\ UNCHANGED <<config, u, at, caller, jsonData, rng, repos, cloned, i,
                   reponum, exitcode, printed, nPrinted, mirrored, nMain,
                   nStars, callLog, retd, ret, errAt, wikiFailed,
                   starsFailed, discRet>>

mainSkipRepos ==
    /\ pc = "main" /\ u <= Len(users) /\ at = "owned" /\ ~WantOwned(starsonly)
    /\ at' = "starred"
    /\ ev' = "skip_owned"
    /\ UNCHANGED <<config, pc, u, caller, jsonData, rng, repos, cloned, i,
                   reponum, exitcode, cmd, printed, nPrinted, mirrored, nExec,
                   nMain, nOwned, nStars, callLog, retd, ret, errAt,
                   wikiFailed, starsFailed, discRet>>

mainGetStars ==
    /\ pc = "main" /\ u <= Len(users) /\ at = "starred"
    /\ WantStarred(stars, starsonly)
    /\ pc' = "http"
    /\ cmd' = HttpGet(TrimSpace(users[u]))
    /\ nExec' = nExec + 1
    /\ nStars' = [nStars EXCEPT ![u] = @ + 1]
    /\ ev' = "http"
    /\ UNCHANGED <<config, u, at, caller, jsonData, rng, repos, cloned, i,
                   reponum, exitcode, printed, nPrinted, mirrored, nMain,
                   nOwned, callLog, retd, ret, errAt, wikiFailed,
                   starsFailed, discRet>>

mainSkipStars ==
    /\ pc = "main" /\ u <= Len(users) /\ at = "starred"
    /\ ~WantStarred(stars, starsonly)
    /\ at' = "owned"
    /\ u' = u + 1
    /\ ev' = "skip_starred"
    /\ UNCHANGED <<config, pc, caller, jsonData, rng, repos, cloned, i,
                   reponum, exitcode, cmd, printed, nPrinted, mirrored, nExec,
                   nMain, nOwned, nStars, callLog, retd, ret, errAt,
                   wikiFailed, starsFailed, discRet>>

mainReturn ==
    /\ pc = "main" /\ u > Len(users)
    /\ pc' = "exit"
    /\ exitcode' = 0
    /\ ev' = "return"
    /\ UNCHANGED <<config, u, at, caller, jsonData, rng, repos, cloned, i,
                   reponum, cmd, printed, nPrinted, mirrored, nExec, nMain,
                   nOwned, nStars, callLog, retd, ret, errAt, wikiFailed,
                   starsFailed, discRet>>

\* ------------------------------------------------------------ getRepos
\* exec gh errored: log.Fatal.
getReposErr ==
    /\ pc = "gh"
    /\ Fatal
    /\ errAt' = nExec
    /\ ev' = "gh_err"
    /\ UNCHANGED <<config, u, at, caller, jsonData, rng, repos, cloned, i,
                   reponum, cmd, printed, nPrinted, mirrored, nExec, nMain,
                   nOwned, nStars, callLog, retd, ret, wikiFailed,
                   starsFailed, discRet>>

\* exec gh gave `out`: parse it and call cloneRepos.
getReposOutFrom(outs) ==
    /\ pc = "gh"
    /\ \E out \in outs : EnterCloneRepos(ParseGh(out), "owned")
    /\ ev' = "gh_ok"
    /\ UNCHANGED <<config, u, at, jsonData, reponum, exitcode, cmd, printed,
                   nPrinted, mirrored, nExec, nMain, nOwned, nStars, ret,
                   errAt, wikiFailed, starsFailed, discRet>>

getReposOut == getReposOutFrom(GhOutputs)

\* ------------------------------------------------------------ getStars
\* Variant: a failed starred discovery ends the process.
StarsErrFatal ==
    /\ Fatal
    /\ UNCHANGED <<u, at, discRet>>

\* What follows a failed request, read or decode: log.Printf, return nil.
StarsErr ==
    /\ discRet' = << >>
    /\ BackToMain("starred")
    /\ UNCHANGED exitcode

\* http.Get errored, the body could not be read or is no JSON array of
\* objects.
getStarsFail ==
    /\ pc = "http"
    /\ \E r \in Responses : r.kind # "ok" /\ ev' = r.kind
    /\ starsFailed' = TRUE
    /\ StarsErr
    /\ UNCHANGED <<config, caller, jsonData, rng, repos, cloned, i, reponum,
                   cmd, printed, nPrinted, mirrored, nExec, nMain, nOwned,
                   nStars, callLog, retd, ret, errAt, wikiFailed>>

\* The body decoded into jsonData: collect the names and call cloneRepos.
getStarsBody ==
    /\ pc = "http"
    /\ \E r \in Responses :
          /\ r.kind = "ok"
          /\ jsonData' = r.body
          /\ EnterCloneRepos(StarRepos(r.body), "starred")
    /\ ev' = "http_ok"
    /\ UNCHANGED <<config, u, at, reponum, exitcode, cmd, printed, nPrinted,
                   mirrored, nExec, nMain, nOwned, nStars, ret, errAt,
                   wikiFailed, starsFailed, discRet>>

\* ---------------------------------------------------------- cloneRepos
\* Variant: the loop reads the slice as it is now, appended elements included.
RangeExprLive(evaluated, current) == current

\* `for _, repo := range repos` evaluates repos once, before the loop.
RangeExpr(evaluated, current) == evaluated

\* Variant: the error of the main clone is dropped and the wiki clone started.
MainCloneErrIgnored ==
    /\ pc' = "wiki"
    /\ cmd' = CloneCmd(WikiRemote(rng[i]), WikiDest(output, rng[i]))
    /\ callLog' = Append(callLog, <<"wiki", rng[i]>>)
    /\ nExec' = nExec + 1
    /\ UNCHANGED <<i, exitcode, wikiFailed>>

\* What follows an error of the main clone: log.Fatal.
MainCloneErr ==
    /\ Fatal
    /\ UNCHANGED <<i, cmd, nExec, callLog, wikiFailed>>

\* Variant: the error of the wiki clone ends the process.
WikiCloneErrFatal ==
    /\ Fatal
    /\ UNCHANGED i

\* What follows an error of the wiki clone: nothing, the loop goes on.
WikiCloneErr ==
    /\ pc' = "range"
    /\ i' = i + 1
    /\ UNCHANGED exitcode

\* The loop is over: return cloned; the discovery returns its own list.
cloneReturn ==
    /\ pc = "range" /\ i > Len(RangeExpr(rng, repos))
    /\ ret' = cloned
    /\ retd' = TRUE
    /\ discRet' = rng
    /\ BackToMain(caller)
    /\ ev' = "ret"
    /\ UNCHANGED <<config, caller, jsonData, rng, repos, cloned, i, reponum,
                   exitcode, cmd, printed, nPrinted, mirrored, nExec, nMain,
                   nOwned, nStars, callLog, errAt, wikiFailed, starsFailed>>

\* Variant: the counter is incremented before the allow-list is consulted.
cloneSkipCounting ==
    /\ pc = "range" /\ i <= Len(rng)
    /\ ~Included(rng[i], limit)
    /\ i' = i + 1
    /\ reponum' = reponum + 1
    /\ ev' = "skip"
    /\ UNCHANGED <<config, pc, u, at, caller, jsonData, rng, repos, cloned,
                   exitcode, cmd, printed, nPrinted, mirrored, nExec, nMain,
                   nOwned, nStars, callLog, retd, ret, errAt, wikiFailed,
                   starsFailed, discRet>>

\* The repository is not in the allow-list: continue.
cloneSkip ==
    /\ pc = "range" /\ i <= Len(RangeExpr(rng, repos))
    /\ ~Included(RangeExpr(rng, repos)[i], limit)
    /\ i' = i + 1
    /\ ev' = "skip"
    /\ UNCHANGED <<config, pc, u, at, caller, jsonData, rng, repos, cloned,
                   reponum, exitcode, cmd, printed, nPrinted, mirrored, nExec,
                   nMain, nOwned, nStars, callLog, retd, ret, errAt,
                   wikiFailed, starsFailed, discRet>>

\* The repository is included: count, print, append, start the main clone.
cloneInclude ==
    /\ pc = "range" /\ i <= Len(RangeExpr(rng, repos))
    /\ LET repo == RangeExpr(rng, repos)[i] IN
          /\ Included(repo, limit)
          /\ reponum' = reponum + 1
          /\ printed' = [num |-> reponum + 1, repo |-> repo]
          /\ nPrinted' = nPrinted + 1
          /\ repos' = Append(repos, repo)
          /\ cmd' = CloneCmd(MainRemote(repo), MainDest(output, repo))
          /\ callLog' = Append(callLog, <<"main", repo>>)
    /\ nExec' = nExec + 1
    /\ nMain' = nMain + 1
    /\ pc' = "git"
    /\ ev' = "main"
    /\ UNCHANGED <<config, u, at, caller, jsonData, rng, cloned, i, exitcode,
                   mirrored, nOwned, nStars, retd, ret, errAt, wikiFailed,
                   starsFailed, discRet>>

\* The main clone errored.
cloneMainErr ==
    /\ pc = "git"
    /\ MainCloneErr
    /\ errAt' = nExec
    /\ ev' = "git_err"
    /\ UNCHANGED <<config, u, at, caller, jsonData, rng, repos, cloned,
                   reponum, printed, nPrinted, mirrored, nMain, nOwned,
                   nStars, retd, ret, starsFailed, discRet>>

\* The main clone succeeded: start the wiki clone.
cloneMainOk ==
    /\ pc = "git"
    /\ LET repo == RangeExpr(rng, repos)[i] IN
          /\ mirrored' = mirrored \cup {MainDest(output, repo)}
          /\ cmd' = CloneCmd(WikiRemote(repo), WikiDest(output, repo))
          /\ callLog' = Append(callLog, <<"wiki", repo>>)
    /\ nExec' = nExec + 1
    /\ pc' = "wiki"
    /\ ev' = "git_ok"
    /\ UNCHANGED <<config, u, at, caller, jsonData, rng, repos, cloned, i,
                   reponum, exitcode, printed, nPrinted, nMain, nOwned,
                   nStars, retd, ret, errAt, wikiFailed, starsFailed,
                   discRet>>

\* The wiki clone succeeded.
cloneWikiOk ==
    /\ pc = "wiki"
    /\ pc' = "range"
    /\ i' = i + 1
    /\ ev' = "wiki_ok"
    /\ UNCHANGED <<config, u, at, caller, jsonData, rng, repos, cloned,
                   reponum, exitcode, cmd, printed, nPrinted, mirrored, nExec,
                   nMain, nOwned, nStars, callLog, retd, ret, errAt,
                   wikiFailed, starsFailed, discRet>>

\* The wiki clone errored: the error is dropped.
cloneWikiErr ==
    /\ pc = "wiki"
    /\ WikiCloneErr
    /\ wikiFailed' = TRUE
    /\ ev' = "wiki_err"
    /\ UNCHANGED <<config, u, at, caller, jsonData, rng, repos, cloned,
                   reponum, cmd, printed, nPrinted, mirrored, nExec, nMain,
                   nOwned, nStars, callLog, retd, ret, errAt, starsFailed,
                   discRet>>

\* ------------------------------------------------------ specifications
Next ==
    \/ mainGetRepos
    \/ mainSkipRepos
    \/ mainGetStars
    \/ mainSkipStars
    \/ mainReturn
    \/ getReposErr
    \/ getReposOut
    \/ getStarsFail
    \/ getStarsBody
    \/ cloneReturn
    \/ cloneSkip
    \/ cloneInclude
    \/ cloneMainErr
    \/ cloneMainOk
    \/ cloneWikiOk
    \/ cloneWikiErr

Spec == Init /\ [][Next]_vars

\* One account, owned discovery only, with a wider choice of repository
\* names and allow-lists: the inputs of cloneRepos and inSlise.
getReposOutMirror == getReposOutFrom(MirrorGhOutputs)

InitMirror == \E ll \in MirrorLimitLists : InitRun(<<"u">>, ll, FALSE, FALSE)

NextMirror ==
    \/ mainGetRepos
    \/ mainSkipStars
    \/ mainReturn
    \/ getReposErr
    \/ getReposOutMirror
    \/ cloneReturn
    \/ cloneSkip
    \/ cloneInclude
    \/ cloneMainErr
    \/ cloneMainOk
    \/ cloneWikiOk
    \/ cloneWikiErr

SpecMirror == InitMirror /\ [][NextMirror]_vars

\* ---------------------------------------- what the properties speak of
\* t is e without its leading and trailing whitespace.
IsTrimOf(t, e) ==
    \E a \in 0..Len(e), b \in 0..Len(e) :
        /\ a + b <= Len(e)
        /\ \A k \in 1..a : IsSpace(e[k])
        /\ \A k \in (Len(e) - b + 1)..Len(e) : IsSpace(e[k])
        /\ t = SubSeq(e, a + 1, Len(e) - b)
        /\ t # << >> => ~IsSpace(t[1]) /\ ~IsSpace(t[Len(t)])

\* r is let through by the allow-list L.
InAllowList(r, L) == L = << >> \/ \E k \in 1..Len(L) : IsTrimOf(r, L[k])

\* r equals an entry of L, trimmed.
MatchesEntry(r, L) == \E k \in 1..Len(L) : IsTrimOf(r, L[k])

AllowedOf(list, L) == SelectSeq(list, LAMBDA r : InAllowList(r, L))

\* The clone invocations a list calls for: main then wiki, per allowed name.
RECURSIVE ExpectedLog(_, _)
ExpectedLog(list, L) ==
    IF list = << >> THEN << >>
    ELSE (IF InAllowList(Head(list), L)
          THEN << <<"main", Head(list)>>, <<"wiki", Head(list)>> >>
          ELSE << >>) \o ExpectedLog(Tail(list), L)

MainsOf(log) ==
    LET m == SelectSeq(log, LAMBDA e : e[1] = "main")
    IN  [k \in 1..Len(m) |-> m[k][2]]

\* The full_name values of the objects that have one, in array order.
NamesPresent(jd) ==
    LET h == SelectSeq(jd, LAMBDA o : \E p \in o : p[1] = "full_name")
    IN  [k \in 1..Len(h) |-> (CHOOSE p \in h[k] : p[1] = "full_name")[2]]

InCloneRepos == pc \in {"range", "git", "wiki"}

\* --------------------------------------------------------------- C1
\* C1: once exec gh or a main clone has errored, the process has exited
\* with status 1 and the failed invocation is the last one ever started: no
\* wiki clone, no later clone, no later discovery.
C1_FailFast ==
    errAt # -1 =>
        /\ pc = "exit"
        /\ exitcode = 1
        /\ nExec = errAt
        /\ ev \in {"gh_err", "git_err"}
        /\ ev = "gh_err" => cmd = GhCmd(TrimSpace(users[u]))
        /\ ev = "git_err" =>
              /\ i \in 1..Len(rng)
              /\ cmd = CloneCmd(MainRemote(rng[i]), MainDest(output, rng[i]))
              /\ callLog[Len(callLog)] = <<"main", rng[i]>>

C1_Witness ==
    /\ pc = "exit" /\ ev = "git_err" /\ errAt # -1
    /\ i < Len(rng)
    /\ u < Len(users)
    /\ caller = "owned" /\ stars

\* --------------------------------------------------------------- C2
C2_WikiStep ==
    pc = "wiki" =>
        /\ pc' = "range"
        /\ i' = i + 1
        /\ UNCHANGED <<config, u, at, caller, jsonData, rng, repos, cloned,
                       reponum, exitcode, cmd, printed, nPrinted, mirrored,
                       nExec, nMain, nOwned, nStars, callLog, retd, ret,
                       errAt, starsFailed, discRet>>

\* C2: whatever the wiki clone answers, the step after it is the same: the
\* loop moves to the next repository and nothing else of the program
\* changes; and a run in which neither gh nor a main clone errored ends
\* with status 0, failed wiki clones or not.
C2_WikiFailureIsolated ==
    /\ [][C2_WikiStep]_vars
    /\ [](pc = "exit" /\ errAt = -1 => exitcode = 0)

\* The wiki clone of the first repository failed; the second is being cloned.
C2_Witness ==
    /\ wikiFailed
    /\ u = 1 /\ caller = "owned"
    /\ pc = "git" /\ i = 2
    /\ callLog = << <<"main", rng[1]>>, <<"wiki", rng[1]>>, <<"main", rng[2]>> >>

\* --------------------------------------------------------------- C3
\* C3: during a cloneRepos call the clone invocations made so far are, in
\* input order, one main clone then one wiki clone for each occurrence of an
\* allowed repository among those the loop has passed, and nothing for the
\* others; the loop never goes beyond the list it was given; counter and
\* progress records follow the main clones.
C3_MirrorDriver ==
    /\ InCloneRepos => i \in 1..(Len(rng) + 1)
    /\ pc = "range" => callLog = ExpectedLog(SubSeq(rng, 1, i - 1), limit)
    /\ pc = "git" =>
          /\ i \in 1..Len(rng)
          /\ InAllowList(rng[i], limit)
          /\ callLog = ExpectedLog(SubSeq(rng, 1, i - 1), limit)
                           \o << <<"main", rng[i]>> >>
    /\ pc = "wiki" =>
          /\ i \in 1..Len(rng)
          /\ callLog = ExpectedLog(SubSeq(rng, 1, i), limit)
    /\ retd => callLog = ExpectedLog(rng, limit)
    /\ reponum = Len(MainsOf(callLog))
    /\ nPrinted = Len(MainsOf(callLog))
    /\ nExec = Len(callLog) + (IF ev = "start" THEN 0 ELSE 1)

C3_Witness ==
    /\ retd /\ pc = "main"
    /\ Len(rng) = 2 /\ Len(callLog) = 2
    /\ limit # << >>
    /\ callLog[1] = <<"main", rng[1]>>
    /\ callLog[2] = <<"wiki", rng[1]>>

\* --------------------------------------------------------------- C4
C4_SkipStep ==
    ev' = "skip" =>
        /\ i' = i + 1
        /\ UNCHANGED <<config, pc, u, at, caller, jsonData, rng, repos,
                       cloned, reponum, exitcode, cmd, printed, nPrinted,
                       mirrored, nExec, nMain, callLog>>

\* C4: cloneRepos goes on with a repository exactly when the allow-list is
\* empty or the name, as it is, equals an entry with the entry's surrounding
\* whitespace removed; and deciding against one changes nothing but the
\* loop's position.
C4_Filter ==
    /\ [](ev = "skip" => i > 1 /\ ~InAllowList(rng[i - 1], limit))
    /\ [](ev = "main" => InAllowList(rng[i], limit))
    /\ [][C4_SkipStep]_vars

C4_Witness ==
    /\ ev = "skip"
    /\ rng[i - 1] = <<" ", "a">>
    /\ limit = << <<" ", "a", " ">> >>

\* --------------------------------------------------------------- C5
OwnedDue == IF starsonly THEN 0 ELSE 1
StarredDue == IF stars \/ starsonly THEN 1 ELSE 0

\* C5: per account, owned discovery is started at most OwnedDue times and
\* starred discovery at most StarredDue times, and exactly so many in a
\* run that ended without a fatal error; accounts are taken in order, and
\* while the owned discovery of an account or its clones are under way its
\* starred discovery has not started.
C5_ModeFlags ==
    /\ \A k \in 1..Len(users) :
          /\ nOwned[k] <= OwnedDue
          /\ nStars[k] <= StarredDue
          /\ k > u => nOwned[k] = 0 /\ nStars[k] = 0
          /\ k < u => nOwned[k] = OwnedDue /\ nStars[k] = StarredDue
          /\ nStars[k] = 1 => nOwned[k] = OwnedDue
    /\ (pc = "gh" \/ (InCloneRepos /\ caller = "owned")) => nStars[u] = 0
    /\ (pc = "exit" /\ exitcode = 0) => u = Len(users) + 1

C5_Witness ==
    /\ pc = "exit" /\ exitcode = 0
    /\ stars /\ starsonly
    /\ Len(users) = 2
    /\ nStars = <<1, 1>> /\ nOwned = <<0, 0>>

\* --------------------------------------------------------------- C6
C6_FailStep ==
    (pc = "http" /\ ev' \in {"neterr", "readerr", "badjson"}) =>
        /\ discRet' = << >>
        /\ pc' = "main"
        /\ u' = u + 1
        /\ at' = "owned"
        /\ UNCHANGED <<config, reponum, exitcode, cmd, printed, nPrinted,
                       mirrored, nExec, nMain, callLog, errAt>>

\* C6: a starred discovery whose request, read or decoding fails returns
\* the empty list, starts no invocation, leaves the counter alone and hands
\* over to the next account; the run still ends with status 0 unless gh or
\* a main clone errors.
C6_StarsNonFatal ==
    /\ [][C6_FailStep]_vars
    /\ [](pc = "exit" /\ starsFailed /\ errAt = -1 => exitcode = 0)

\* The starred discovery of the first account failed; the first clone of
\* the run is made for the second account.
C6_Witness ==
    /\ starsFailed /\ starsonly
    /\ u = 2 /\ caller = "starred"
    /\ pc = "git" /\ reponum = 1

\* --------------------------------------------------------------- C7
\* C7: the list getStars hands to cloneRepos is the full_name values of the
\* objects that have one, in array order.
C7_SkipsMissingFullName ==
    (InCloneRepos /\ caller = "starred") => rng = NamesPresent(jsonData)

\* --------------------------------------------------------------- C8
\* C8: what cloneRepos returns is the allowed repositories of its input, in
\* input order.
C8_ReturnsCloned == retd => ret = AllowedOf(rng, limit)

\* --------------------------------------------------------------- C9
C9_NoDedup ==
    /\ retd => MainsOf(callLog) = AllowedOf(rng, limit)
    /\ pc = "git" =>
          cmd = CloneCmd(MainRemote(rng[i]), MainDest(output, rng[i]))
    /\ ev = "git_err" => pc = "exit" /\ exitcode = 1 /\ nExec = errAt

\* C9 as stated: a main clone per discovery result whether or not the
\* destination exists, a failed one ends the run, and with -limit not the
\* empty string every main clone is of a repository matching an entry.
C9_AsStated ==
    /\ C9_NoDedup
    /\ (limitslist # << >> /\ pc = "git") =>
          MatchesEntry(rng[i], Split(limitslist, ","))

\* C9 amended: the same, with -limit not blank.
C9_NoDedupLimitNotBlank ==
    /\ C9_NoDedup
    /\ (TrimSpace(limitslist) # << >> /\ pc = "git") =>
          MatchesEntry(rng[i], Split(limitslist, ","))

C9_Witness ==
    /\ pc = "exit" /\ ev = "git_err"
    /\ u = 1 /\ u < Len(users)
    /\ caller = "starred" /\ ~starsonly /\ stars
    /\ i < Len(rng)
    /\ MainDest(output, rng[i]) \in mirrored
    /\ TrimSpace(limitslist) # << >>

\* -------------------------------------------------------------- C10
\* C10: the counter equals the number of main clones started in the run
\* and the number of progress records printed, and the record printed last
\* carries it.
C10_ProgressCounter ==
    /\ reponum = nMain
    /\ nPrinted = nMain
    /\ printed.num = nPrinted
    /\ pc = "git" => printed.repo = rng[i]

C10_Witness ==
    /\ pc = "git" /\ reponum = 4
    /\ u = 2 /\ caller = "starred" /\ ~starsonly
    /\ starsFailed
    /\ limit # << >>

====
